---- MODULE Spec2Model ----
(***************************************************************************)
(* espanso-config: resolution of a configuration document into a           *)
(* ResolvedConfig (config/resolve.rs).                                     *)
(*                                                                         *)
(* Strings that the code takes apart are sequences of tokens: a regular    *)
(* expression source and a window title are sequences of characters, a     *)
(* path is a sequence of components and a component is a sequence of name  *)
(* tokens ("_sub.yml" is <<"_", "sub", ".yml">>).  Option<T> is a sequence *)
(* of length at most one: None is <<>> and Some(v) is <<v>>, so that       *)
(* Some(vec![]) = << <<>> >> differs from None.                            *)
(***************************************************************************)
EXTENDS Naturals, Sequences, FiniteSets

VARIABLES
    target_os,    \* the operating system the build targets
    files,        \* the regular files on disk, as absolute paths
    config_path,  \* the path load is given for the child configuration
    child_doc,    \* what ParsedConfig::load reads at config_path
    parent_doc,   \* what ParsedConfig::load reads at the parent's path
    parent,       \* the result of load(parent_path, None), once called
    child,        \* the result of load(config_path, ..), once called
    call,         \* the last call of a function with its result
    event,          \* the event the dispatcher hands to the executor
    handler_result, \* what the handler's show_context_menu returns
    handler_calls,  \* the item lists show_context_menu was called with
    error_log       \* the messages written with error!

\* The state of the context menu executor and its handler.
menu_vars == <<event, handler_result, handler_calls, error_log>>

vars ==
    <<target_os, files, config_path, child_doc, parent_doc, parent, child, call,
      event, handler_result, handler_calls, error_log>>

----------------------------------------------------------------------------
\* Bounds of the enumerated inputs.

\* Longest includes / excludes / extra_includes / extra_excludes list.
MaxPatterns == 2

\* A record of the merge inputs has at most MaxToggled fields present, or at
\* most MaxToggled fields absent.
MaxToggled == 1

----------------------------------------------------------------------------
\* Option and Result.

None == <<>>

Some(v) == <<v>>

is_none(o) == o = <<>>

is_some(o) == o # <<>>

unwrap(o) == o[1]

Ok(v) == [ok |-> TRUE, val |-> v]

Err(e) == [ok |-> FALSE, err |-> e]

\* No event dispatched, a handler never called, nothing logged.
MenuIdle ==
    /\ event = [etype |-> [kind |-> "NOOP"]]
    /\ handler_result = Ok("()")
    /\ handler_calls = <<>>
    /\ error_log = <<>>

----------------------------------------------------------------------------
\* Glob patterns and the files of the test directory.

STD_INCLUDE == << <<"..">>, <<"match">>, <<"**">>, <<"*", ".yml">> >>

STD_EXCLUDE == << <<"..">>, <<"match">>, <<"**">>, <<"_", "*", ".yml">> >>

\* "../match/sub/*.yml"
PAT_SUB == << <<"..">>, <<"match">>, <<"sub">>, <<"*", ".yml">> >>

\* "../**/another.yml"
PAT_ANOTHER == << <<"..">>, <<"**">>, <<"another", ".yml">> >>

\* "custom/*.yml"
PAT_CUSTOM == << <<"custom">>, <<"*", ".yml">> >>

STANDARD_INCLUDES == << STD_INCLUDE >>

STANDARD_EXCLUDES == << STD_EXCLUDE >>

TestFiles ==
    { << <<"match">>, <<"base", ".yml">> >>,
      << <<"match">>, <<"another", ".yml">> >>,
      << <<"match">>, <<"_", "sub", ".yml">> >>,
      << <<"match">>, <<"notes", ".txt">> >>,
      << <<"match">>, <<"sub">>, <<"another", ".yml">> >>,
      << <<"match">>, <<"sub">>, <<"_", "sub", ".yml">> >>,
      << <<"config">>, <<"default", ".yml">> >>,
      << <<"config">>, <<"parent", ".yml">> >>,
      << <<"config">>, <<"custom">>, <<"own", ".yml">> >> }

ConfigPath == << <<"config">>, <<"default", ".yml">> >>

\* A path with no parent directory: Path::parent() is None for "/" and "".
RootPath == <<>>

----------------------------------------------------------------------------
\* ParsedConfig: every field an Option.

Fields ==
    { "label", "includes", "excludes", "extra_includes", "extra_excludes",
      "use_standard_includes", "filter_title", "filter_class", "filter_exec",
      "filter_os" }

ParsedConfigDefault ==
    [ label |-> None, includes |-> None, excludes |-> None,
      extra_includes |-> None, extra_excludes |-> None,
      use_standard_includes |-> None, filter_title |-> None,
      filter_class |-> None, filter_exec |-> None, filter_os |-> None ]

\* merge!: a field the child leaves None takes a clone of the parent's value.
merge_field(c, p) == IF is_none(c) THEN p ELSE c

\* A merge that extends a list the child declares with the parent's entries.
merge_parsed_deep(c, p) ==
    [ label |-> merge_field(c.label, p.label),
      includes |-> merge_field(c.includes, p.includes),
      excludes |->
          IF is_some(c.excludes) /\ is_some(p.excludes)
          THEN Some(unwrap(c.excludes) \o unwrap(p.excludes))
          ELSE merge_field(c.excludes, p.excludes),
      extra_includes |-> merge_field(c.extra_includes, p.extra_includes),
      extra_excludes |-> merge_field(c.extra_excludes, p.extra_excludes),
      use_standard_includes |->
          merge_field(c.use_standard_includes, p.use_standard_includes),
      filter_title |-> merge_field(c.filter_title, p.filter_title),
      filter_class |-> merge_field(c.filter_class, p.filter_class),
      filter_exec |-> merge_field(c.filter_exec, p.filter_exec),
      filter_os |-> merge_field(c.filter_os, p.filter_os) ]

\* The value of the child after merge_parsed(&mut child, &parent).
merge_parsed(c, p) ==
    [ label |-> merge_field(c.label, p.label),
      includes |-> merge_field(c.includes, p.includes),
      excludes |-> merge_field(c.excludes, p.excludes),
      extra_includes |-> merge_field(c.extra_includes, p.extra_includes),
      extra_excludes |-> merge_field(c.extra_excludes, p.extra_excludes),
      use_standard_includes |->
          merge_field(c.use_standard_includes, p.use_standard_includes),
      filter_title |-> merge_field(c.filter_title, p.filter_title),
      filter_class |-> merge_field(c.filter_class, p.filter_class),
      filter_exec |-> merge_field(c.filter_exec, p.filter_exec),
      filter_os |-> merge_field(c.filter_os, p.filter_os) ]

----------------------------------------------------------------------------
\* The merge inputs: records with few fields present or few fields absent,
\* in two sets of values, the second with the empty list and Some(false).

TXT_GOOGLE == <<"G", "o", "o", "g", "l", "e">>

TXT_YOUTUBE == <<"Y", "o", "u", "t", "u", "b", "e">>

TXT_CHROME == <<"C", "h", "r", "o", "m", "e">>

TXT_CHROME_EXE == <<"c", "h", "r", "o", "m", "e", ".", "e", "x", "e">>

TXT_ZOOM_EXE == <<"z", "o", "o", "m", ".", "e", "x", "e">>

ValuesA ==
    [ label |-> Some("work"), includes |-> Some(<<PAT_SUB>>),
      excludes |-> Some(<<PAT_ANOTHER>>),
      extra_includes |-> Some(<<PAT_CUSTOM>>),
      extra_excludes |-> Some(<<PAT_ANOTHER, PAT_CUSTOM>>),
      use_standard_includes |-> Some(TRUE),
      filter_title |-> Some(TXT_GOOGLE), filter_class |-> Some(TXT_CHROME),
      filter_exec |-> Some(TXT_CHROME_EXE), filter_os |-> Some("linux") ]

ValuesB ==
    [ label |-> Some("home"), includes |-> Some(<<>>),
      excludes |-> Some(<<>>), extra_includes |-> Some(<<>>),
      extra_excludes |-> Some(<<>>),
      use_standard_includes |-> Some(FALSE),
      filter_title |-> Some(TXT_YOUTUBE), filter_class |-> Some(<<>>),
      filter_exec |-> Some(TXT_ZOOM_EXE), filter_os |-> Some("macos") ]

Masked(values, present) ==
    [ f \in Fields |-> IF f \in present THEN values[f] ELSE None ]

MergeMasks ==
    { m \in SUBSET Fields :
        \/ Cardinality(m) <= MaxToggled
        \/ Cardinality(m) >= Cardinality(Fields) - MaxToggled }

MergeRecords ==
    { Masked(v, m) : v \in {ValuesA, ValuesB}, m \in MergeMasks }

----------------------------------------------------------------------------
\* Merge, called directly (as the unit tests do).

InitMerge ==
    /\ target_os = "linux"
    /\ files = TestFiles
    /\ config_path = ConfigPath
    /\ child_doc \in { Ok(r) : r \in MergeRecords }
    /\ parent_doc \in { Ok(r) : r \in MergeRecords }
    /\ parent = None
    /\ child = None
    /\ call = [op |-> "none"]
    /\ MenuIdle

MergeParsed ==
    /\ call.op = "none"
    /\ call' = [ op |-> "merge_parsed", child |-> child_doc.val,
                 parent |-> parent_doc.val,
                 ret |-> merge_parsed(child_doc.val, parent_doc.val) ]
    /\ UNCHANGED <<menu_vars, target_os, files, config_path, child_doc, parent_doc, parent, child>>

NextMerge == MergeParsed

SpecMerge == InitMerge /\ [][NextMerge]_vars

\* C1: after merge_parsed(child, parent) each of the ten fields of the child
\* holds the child's original value if that value was present (an empty list
\* and Some(false) are present) and the parent's value otherwise; no list is
\* concatenated with the parent's.
C1_MergeFavorsChild ==
    call.op = "merge_parsed" =>
        \A f \in Fields :
            /\ is_some(call.child[f]) => call.ret[f] = call.child[f]
            /\ is_none(call.child[f]) => call.ret[f] = call.parent[f]

C1_Witness ==
    /\ call.op = "merge_parsed"
    /\ call.child.excludes = Some(<<>>)
    /\ call.parent.excludes = Some(<<PAT_ANOTHER>>)
    /\ call.child.use_standard_includes = Some(FALSE)
    /\ call.parent.use_standard_includes = Some(TRUE)
    /\ is_none(call.child.label)
    /\ call.ret.label = Some("work")

----------------------------------------------------------------------------
\* Path aggregation and glob resolution.

Range(s) == { s[i] : i \in 1..Len(s) }

\* Path::parent(): None for a path with no components left to strip.
path_parent(path) ==
    IF Len(path) = 0 THEN None ELSE Some(SubSeq(path, 1, Len(path) - 1))

\* The standard include pattern whatever use_standard_includes says.
aggregate_includes_always_std(config) ==
    Range(STANDARD_INCLUDES)
        \cup (IF is_some(config.includes) THEN Range(unwrap(config.includes)) ELSE {})
        \cup (IF is_some(config.extra_includes)
              THEN Range(unwrap(config.extra_includes)) ELSE {})

aggregate_includes(config) ==
    LET std == IF is_none(config.use_standard_includes)
                  \/ unwrap(config.use_standard_includes)
               THEN Range(STANDARD_INCLUDES) ELSE {}
        yaml_includes == IF is_some(config.includes)
                         THEN Range(unwrap(config.includes)) ELSE {}
        extra_includes == IF is_some(config.extra_includes)
                          THEN Range(unwrap(config.extra_includes)) ELSE {}
    IN  std \cup yaml_includes \cup extra_includes

\* extra_excludes taken only together with the standard pattern.
aggregate_excludes_gated_extra(config) ==
    LET on == is_none(config.use_standard_includes)
                  \/ unwrap(config.use_standard_includes)
    IN  (IF on THEN Range(STANDARD_EXCLUDES) ELSE {})
            \cup (IF is_some(config.excludes)
                  THEN Range(unwrap(config.excludes)) ELSE {})
            \cup (IF on /\ is_some(config.extra_excludes)
                  THEN Range(unwrap(config.extra_excludes)) ELSE {})

aggregate_excludes(config) ==
    LET std == IF is_none(config.use_standard_includes)
                  \/ unwrap(config.use_standard_includes)
               THEN Range(STANDARD_EXCLUDES) ELSE {}
        yaml_excludes == IF is_some(config.excludes)
                         THEN Range(unwrap(config.excludes)) ELSE {}
        extra_excludes == IF is_some(config.extra_excludes)
                          THEN Range(unwrap(config.extra_excludes)) ELSE {}
    IN  std \cup yaml_excludes \cup extra_excludes

\* A name against a component pattern; "*" stands for any run of tokens.
RECURSIVE glob_name(_, _)
glob_name(pat, name) ==
    IF pat = <<>> THEN name = <<>>
    ELSE IF Head(pat) = "*"
         THEN \/ glob_name(Tail(pat), name)
              \/ name # <<>> /\ glob_name(pat, Tail(name))
         ELSE /\ name # <<>>
              /\ Head(name) = Head(pat)
              /\ glob_name(Tail(pat), Tail(name))

\* A path against a pattern; "**" stands for any run of directories.
RECURSIVE glob_path(_, _)
glob_path(pat, path) ==
    IF pat = <<>> THEN path = <<>>
    ELSE IF Head(pat) = <<"**">>
         THEN \/ glob_path(Tail(pat), path)
              \/ Len(path) > 1 /\ glob_path(pat, Tail(path))
         ELSE /\ path # <<>>
              /\ glob_name(Head(pat), Head(path))
              /\ glob_path(Tail(pat), Tail(path))

\* base_dir/pattern with each ".." taking back the component before it.
RECURSIVE canonical(_, _)
canonical(done, rest) ==
    IF rest = <<>> THEN done
    ELSE IF Head(rest) = <<"..">>
         THEN canonical(IF done = <<>> THEN done
                        ELSE SubSeq(done, 1, Len(done) - 1), Tail(rest))
         ELSE canonical(Append(done, Head(rest)), Tail(rest))

\* The files one pattern, relative to base_dir, resolves to.
glob(base_dir, pattern) ==
    { f \in files : glob_path(canonical(base_dir, pattern), f) }

calculate_paths(base_dir, patterns) ==
    UNION { glob(base_dir, p) : p \in patterns }

\* Exclusion by pattern: an include pattern is dropped only when the same
\* pattern is excluded.
generate_match_paths_by_pattern(config, base_dir) ==
    calculate_paths(base_dir, aggregate_includes(config) \ aggregate_excludes(config))

generate_match_paths(config, base_dir) ==
    LET includes == aggregate_includes(config)
        excludes == aggregate_excludes(config)
        exclude_paths == calculate_paths(base_dir, excludes)
        include_paths == calculate_paths(base_dir, includes)
    IN  include_paths \ exclude_paths

----------------------------------------------------------------------------
\* The inputs of the path functions: one record, its five path fields drawn
\* from short lists of patterns.

RECURSIVE SeqsUpTo(_, _)
SeqsUpTo(S, n) ==
    IF n = 0 THEN { <<>> }
    ELSE LET shorter == SeqsUpTo(S, n - 1)
         IN  shorter \cup { Append(s, x) : s \in shorter, x \in S }

PatternLists(S) == { None } \cup { Some(l) : l \in SeqsUpTo(S, MaxPatterns) }

PathRecords ==
    { [ ParsedConfigDefault EXCEPT
          !.includes = i, !.excludes = e, !.extra_includes = xi,
          !.extra_excludes = xe, !.use_standard_includes = u ] :
        i \in PatternLists({STD_INCLUDE, PAT_SUB}),
        e \in PatternLists({STD_EXCLUDE, PAT_ANOTHER}),
        xi \in PatternLists({STD_INCLUDE, PAT_CUSTOM}),
        xe \in PatternLists({PAT_CUSTOM}),
        u \in { None, Some(TRUE), Some(FALSE) } }

InitPaths ==
    /\ target_os = "linux"
    /\ files = TestFiles
    /\ config_path = ConfigPath
    /\ child_doc \in { Ok(r) : r \in PathRecords }
    /\ parent_doc = Ok(ParsedConfigDefault)
    /\ parent = None
    /\ child = None
    /\ call = [op |-> "none"]
    /\ MenuIdle

AggregateIncludes ==
    /\ call.op = "none"
    /\ call' = [ op |-> "aggregate_includes", config |-> child_doc.val,
                 ret |-> aggregate_includes(child_doc.val) ]
    /\ UNCHANGED <<menu_vars, target_os, files, config_path, child_doc, parent_doc, parent, child>>

AggregateExcludes ==
    /\ call.op = "none"
    /\ call' = [ op |-> "aggregate_excludes", config |-> child_doc.val,
                 ret |-> aggregate_excludes(child_doc.val) ]
    /\ UNCHANGED <<menu_vars, target_os, files, config_path, child_doc, parent_doc, parent, child>>

GenerateMatchPaths ==
    /\ call.op = "none"
    /\ is_some(path_parent(config_path))
    /\ call' = [ op |-> "generate_match_paths", config |-> child_doc.val,
                 base_dir |-> unwrap(path_parent(config_path)),
                 ret |-> generate_match_paths(child_doc.val,
                                              unwrap(path_parent(config_path))) ]
    /\ UNCHANGED <<menu_vars, target_os, files, config_path, child_doc, parent_doc, parent, child>>

NextPaths == AggregateIncludes \/ AggregateExcludes \/ GenerateMatchPaths

SpecPaths == InitPaths /\ [][NextPaths]_vars

----------------------------------------------------------------------------
\* The standard patterns are in force when use_standard_includes is absent
\* or true.
StandardOn(config) ==
    \/ is_none(config.use_standard_includes)
    \/ config.use_standard_includes = Some(TRUE)

\* x is an entry of the list field f of config.
Listed(config, f, x) ==
    /\ is_some(config[f])
    /\ \E i \in 1..Len(unwrap(config[f])) : unwrap(config[f])[i] = x

AllPatterns == {STD_INCLUDE, STD_EXCLUDE, PAT_SUB, PAT_ANOTHER, PAT_CUSTOM}

\* C5: generate_match_paths returns the files resolved from the aggregated
\* include patterns minus the files resolved from the aggregated exclude
\* patterns: a file that an exclude pattern produces is never returned, by
\* however many include patterns it is produced, and a file produced by an
\* include pattern and by no exclude pattern is returned.
C5_SetDifference ==
    call.op = "generate_match_paths" =>
        /\ call.ret \subseteq files
        /\ \A f \in files :
              f \in call.ret <=>
                  /\ \E p \in aggregate_includes(call.config) :
                        f \in glob(call.base_dir, p)
                  /\ ~ \E p \in aggregate_excludes(call.config) :
                        f \in glob(call.base_dir, p)

\* match/sub/another.yml is produced by two include patterns and one exclude
\* pattern; match/sub/_sub.yml is produced by includes only and returned.
C5_Witness ==
    /\ call.op = "generate_match_paths"
    /\ call.config.use_standard_includes = Some(FALSE)
    /\ {STD_INCLUDE, PAT_SUB} \subseteq aggregate_includes(call.config)
    /\ aggregate_excludes(call.config) = {PAT_ANOTHER}
    /\ << <<"match">>, <<"sub">>, <<"another", ".yml">> >> \notin call.ret
    /\ << <<"match">>, <<"sub">>, <<"_", "sub", ".yml">> >> \in call.ret

\* C6 as stated: with use_standard_includes absent or true the standard
\* include pattern is in the result of aggregate_includes; with it false the
\* pattern is in the result only if extra_includes lists it.
C6_AsStated ==
    call.op = "aggregate_includes" =>
        /\ StandardOn(call.config) => STD_INCLUDE \in call.ret
        /\ ~ StandardOn(call.config) /\ STD_INCLUDE \in call.ret
              => Listed(call.config, "extra_includes", STD_INCLUDE)

\* C6 amended: with use_standard_includes absent or true the standard include
\* pattern is in the result of aggregate_includes; with it false the pattern
\* is in the result exactly when includes or extra_includes lists it.
C6_StandardInclude ==
    call.op = "aggregate_includes" =>
        /\ StandardOn(call.config) => STD_INCLUDE \in call.ret
        /\ ~ StandardOn(call.config) =>
              (STD_INCLUDE \in call.ret <=>
                  \/ Listed(call.config, "includes", STD_INCLUDE)
                  \/ Listed(call.config, "extra_includes", STD_INCLUDE))

C6_Witness ==
    /\ call.op = "aggregate_includes"
    /\ call.config.use_standard_includes = Some(FALSE)
    /\ call.config.includes = Some(<<PAT_SUB>>)
    /\ is_none(call.config.extra_includes)
    /\ STD_INCLUDE \notin call.ret

\* C7: aggregate_includes returns the set of the standard include pattern
\* (when use_standard_includes is absent or true), the entries of includes
\* and the entries of extra_includes; aggregate_excludes returns the same
\* for the standard exclude pattern, excludes and extra_excludes.  An entry
\* of an extra list is in the result whatever the flag is, and a pattern
\* given twice is one element.
C7_AggregateUnion ==
    /\ call.op = "aggregate_includes" =>
          /\ call.ret \subseteq AllPatterns
          /\ \A x \in AllPatterns :
                x \in call.ret <=>
                    \/ StandardOn(call.config) /\ x = STD_INCLUDE
                    \/ Listed(call.config, "includes", x)
                    \/ Listed(call.config, "extra_includes", x)
    /\ call.op = "aggregate_excludes" =>
          /\ call.ret \subseteq AllPatterns
          /\ \A x \in AllPatterns :
                x \in call.ret <=>
                    \/ StandardOn(call.config) /\ x = STD_EXCLUDE
                    \/ Listed(call.config, "excludes", x)
                    \/ Listed(call.config, "extra_excludes", x)

\* extra_excludes survives use_standard_includes: false, and the pattern it
\* gives twice is one element of the result.
C7_Witness ==
    /\ call.op = "aggregate_excludes"
    /\ call.config.use_standard_includes = Some(FALSE)
    /\ call.config.extra_excludes = Some(<<PAT_CUSTOM, PAT_CUSTOM>>)
    /\ call.config.excludes = Some(<<PAT_ANOTHER>>)
    /\ call.ret = {PAT_ANOTHER, PAT_CUSTOM}

----------------------------------------------------------------------------
\* Regular expressions (the regex crate), for sources made of literal
\* characters, "." and parentheses.

\* Every ")" closes a "(" and every "(" is closed.
RECURSIVE parens_balanced(_, _)
parens_balanced(src, depth) ==
    IF src = <<>> THEN depth = 0
    ELSE IF Head(src) = "(" THEN parens_balanced(Tail(src), depth + 1)
    ELSE IF Head(src) = ")"
         THEN depth > 0 /\ parens_balanced(Tail(src), depth - 1)
         ELSE parens_balanced(Tail(src), depth)

\* Regex::new: the compiled program, or the compiler's error.
regex_new(src) ==
    IF parens_balanced(src, 0)
    THEN Ok([program |-> src])
    ELSE Err("regex::Error")

\* Regex::is_match: an unanchored search.
regex_is_match(re, text) ==
    \E start \in 0..Len(text) :
        /\ start + Len(re.program) <= Len(text)
        /\ \A j \in 1..Len(re.program) :
              \/ re.program[j] = "."
              \/ re.program[j] = text[start + j]

\* util::os_matches: the declared identifier names the build's target.
os_matches(os) == os = target_os

----------------------------------------------------------------------------
\* ResolvedConfig.

ResolvedConfigDefault ==
    [ parsed |-> ParsedConfigDefault, match_paths |-> {},
      filter_title |-> None, filter_class |-> None, filter_exec |-> None ]

\* One regex filter of is_match against one runtime property.
filter_matches(regex, property) ==
    IF is_some(regex)
    THEN IF is_some(property)
         THEN regex_is_match(unwrap(regex), unwrap(property))
         ELSE FALSE
    ELSE TRUE

\* is_match without the early return for a configuration with no filter.
is_match_no_early_return(self, app) ==
    /\ (IF is_some(self.parsed.filter_os)
        THEN os_matches(unwrap(self.parsed.filter_os)) ELSE TRUE)
    /\ filter_matches(self.filter_exec, app.exec)
    /\ filter_matches(self.filter_title, app.title)
    /\ filter_matches(self.filter_class, app.class)

\* is_match taking a missing runtime property for a match.
is_match_none_passes(self, app) ==
    LET lenient(regex, property) ==
            is_some(regex) /\ is_some(property)
                => regex_is_match(unwrap(regex), unwrap(property))
    IN  IF /\ is_none(self.parsed.filter_os)
           /\ is_none(self.parsed.filter_title)
           /\ is_none(self.parsed.filter_exec)
           /\ is_none(self.parsed.filter_class)
        THEN FALSE
        ELSE /\ (IF is_some(self.parsed.filter_os)
                 THEN os_matches(unwrap(self.parsed.filter_os)) ELSE TRUE)
             /\ lenient(self.filter_exec, app.exec)
             /\ lenient(self.filter_title, app.title)
             /\ lenient(self.filter_class, app.class)

\* is_match with the title filter left out of the final conjunction.
is_match_title_dropped(self, app) ==
    IF /\ is_none(self.parsed.filter_os)
       /\ is_none(self.parsed.filter_title)
       /\ is_none(self.parsed.filter_exec)
       /\ is_none(self.parsed.filter_class)
    THEN FALSE
    ELSE /\ (IF is_some(self.parsed.filter_os)
             THEN os_matches(unwrap(self.parsed.filter_os)) ELSE TRUE)
         /\ filter_matches(self.filter_exec, app.exec)
         /\ filter_matches(self.filter_class, app.class)

is_match(self, app) ==
    IF /\ is_none(self.parsed.filter_os)
       /\ is_none(self.parsed.filter_title)
       /\ is_none(self.parsed.filter_exec)
       /\ is_none(self.parsed.filter_class)
    THEN FALSE
    ELSE LET is_os_match ==
                 IF is_some(self.parsed.filter_os)
                 THEN os_matches(unwrap(self.parsed.filter_os))
                 ELSE TRUE
             is_title_match == filter_matches(self.filter_title, app.title)
             is_exec_match == filter_matches(self.filter_exec, app.exec)
             is_class_match == filter_matches(self.filter_class, app.class)
         IN  is_os_match /\ is_exec_match /\ is_title_match /\ is_class_match

\* The path of the parent configuration's document.
ParentPath == << <<"config">>, <<"parent", ".yml">> >>

\* ParsedConfig::load: the record read at the path, or the reader's error.
ParsedConfig_load(path) ==
    IF path = ParentPath THEN parent_doc ELSE child_doc

\* compile_filter with an invalid source taken for an absent filter.
compile_filter_lenient(source) ==
    IF is_some(source)
    THEN LET compiled == regex_new(unwrap(source))
         IN  IF compiled.ok THEN Ok(Some(compiled.val)) ELSE Ok(None)
    ELSE Ok(None)

\* One filter of load: Ok(None) for an absent field, Ok(Some(regex)) for a
\* source that compiles, the compiler's error otherwise.
compile_filter(source) ==
    IF is_some(source)
    THEN LET compiled == regex_new(unwrap(source))
         IN  IF compiled.ok THEN Ok(Some(compiled.val)) ELSE compiled
    ELSE Ok(None)

\* load with the match paths, or the filters, taken from the record as read
\* rather than from the merged record.
load_variant(path, parent_config, paths_as_read, filters_as_read) ==
    LET read == ParsedConfig_load(path)
    IN  IF ~ read.ok THEN read
        ELSE
        LET config == IF is_some(parent_config)
                      THEN merge_parsed(read.val, unwrap(parent_config).parsed)
                      ELSE read.val
            base_dir == path_parent(path)
            paths_of == IF paths_as_read THEN read.val ELSE config
            filters_of == IF filters_as_read THEN read.val ELSE config
        IN  IF is_none(base_dir) THEN Err("ParentResolveFailed")
            ELSE
            LET match_paths == generate_match_paths(paths_of, unwrap(base_dir))
                filter_title == compile_filter(filters_of.filter_title)
                filter_class == compile_filter(filters_of.filter_class)
                filter_exec == compile_filter(filters_of.filter_exec)
            IN  IF ~ filter_title.ok THEN filter_title
                ELSE IF ~ filter_class.ok THEN filter_class
                ELSE IF ~ filter_exec.ok THEN filter_exec
                ELSE Ok([ parsed |-> config,
                          match_paths |-> match_paths,
                          filter_title |-> filter_title.val,
                          filter_class |-> filter_class.val,
                          filter_exec |-> filter_exec.val ])

load_paths_before_merge(path, parent_config) ==
    load_variant(path, parent_config, TRUE, FALSE)

load_filters_before_merge(path, parent_config) ==
    load_variant(path, parent_config, FALSE, TRUE)

\* ResolvedConfig::load(path, parent).  match_paths is kept as the set of its
\* elements: the Vec is collected from a HashSet, in no order the code fixes.
load(path, parent_config) ==
    LET read == ParsedConfig_load(path)
    IN  IF ~ read.ok THEN read
        ELSE
        LET config == IF is_some(parent_config)
                      THEN merge_parsed(read.val, unwrap(parent_config).parsed)
                      ELSE read.val
            base_dir == path_parent(path)
        IN  IF is_none(base_dir) THEN Err("ParentResolveFailed")
            ELSE
            LET match_paths == generate_match_paths(config, unwrap(base_dir))
                filter_title == compile_filter(config.filter_title)
                filter_class == compile_filter(config.filter_class)
                filter_exec == compile_filter(config.filter_exec)
            IN  IF ~ filter_title.ok THEN filter_title
                ELSE IF ~ filter_class.ok THEN filter_class
                ELSE IF ~ filter_exec.ok THEN filter_exec
                ELSE Ok([ parsed |-> config,
                          match_paths |-> match_paths,
                          filter_title |-> filter_title.val,
                          filter_class |-> filter_class.val,
                          filter_exec |-> filter_exec.val ])

----------------------------------------------------------------------------
\* Documents, paths and application properties of the load scenarios.

TXT_INVALID == <<"(">>

TXT_GOOGLE_MAIL == TXT_GOOGLE \o <<" ", "M", "a", "i", "l">>

TXT_GMAIL == <<"G", "m", "a", "i", "l">>

TXT_ANOTHER == <<"A", "n", "o", "t", "h", "e", "r">>

Malformed == Err("Deserialization")

\* The path fields of a child document: none, or those of the child of
\* match_paths_generated_correctly_with_child_config.
ChildPathFields ==
    { ParsedConfigDefault,
      [ ParsedConfigDefault EXCEPT
          !.use_standard_includes = Some(FALSE),
          !.excludes = Some(<<>>),
          !.includes = Some(<<PAT_SUB>>) ] }

ChildDocs ==
    { Malformed } \cup
    { Ok([ r EXCEPT !.filter_title = t, !.filter_class = c,
                    !.filter_exec = e, !.filter_os = o ]) :
        r \in ChildPathFields,
        t \in { None, Some(TXT_GOOGLE), Some(TXT_INVALID) },
        c \in { None, Some(TXT_CHROME), Some(TXT_INVALID) },
        e \in { None, Some(TXT_CHROME_EXE), Some(TXT_INVALID) },
        o \in { None, Some("linux"), Some("macos") } }

ParentDocs ==
    { Malformed,
      Ok(ParsedConfigDefault),
      Ok([ ParsedConfigDefault EXCEPT !.excludes = Some(<<PAT_ANOTHER>>) ]),
      Ok([ ParsedConfigDefault EXCEPT
             !.label = Some("work"),
             !.extra_excludes = Some(<<PAT_ANOTHER>>),
             !.filter_title = Some(TXT_GOOGLE),
             !.filter_exec = Some(TXT_CHROME_EXE) ]) }

Apps ==
    [ title : { None, Some(TXT_GOOGLE_MAIL), Some(TXT_GMAIL) },
      class : { None, Some(TXT_CHROME), Some(TXT_ANOTHER) },
      exec : { None, Some(TXT_CHROME_EXE), Some(TXT_ZOOM_EXE) } ]

----------------------------------------------------------------------------
\* Loading a parent and a child configuration and matching them against the
\* active application.

Init ==
    /\ target_os \in { "linux", "windows" }
    /\ files = TestFiles
    /\ config_path \in { ConfigPath, RootPath }
    /\ child_doc \in ChildDocs
    /\ parent_doc \in ParentDocs
    /\ parent = None
    /\ child = None
    /\ call = [op |-> "none"]
    /\ MenuIdle

\* load(parent_path, None)
LoadParent ==
    /\ is_none(parent)
    /\ parent' = Some(load(ParentPath, None))
    /\ UNCHANGED <<menu_vars, target_os, files, config_path, child_doc, parent_doc, child, call>>

\* load(config_path, None)
LoadAlone ==
    /\ is_none(child)
    /\ child' = Some([ by |-> "load", result |-> load(config_path, None),
                       parent |-> None ])
    /\ UNCHANGED <<menu_vars, target_os, files, config_path, child_doc, parent_doc, parent, call>>

\* load(config_path, Some(&parent))
LoadChild ==
    /\ is_none(child)
    /\ is_some(parent)
    /\ unwrap(parent).ok
    /\ child' = Some([ by |-> "load",
                       result |-> load(config_path, Some(unwrap(parent).val)),
                       parent |-> Some(unwrap(parent).val) ])
    /\ UNCHANGED <<menu_vars, target_os, files, config_path, child_doc, parent_doc, parent, call>>

\* ResolvedConfig::default()
NewDefault ==
    /\ is_none(child)
    /\ child' = Some([ by |-> "default", result |-> Ok(ResolvedConfigDefault),
                       parent |-> None ])
    /\ UNCHANGED <<menu_vars, target_os, files, config_path, child_doc, parent_doc, parent, call>>

\* The configurations constructed so far.
Configs ==
    { r.val : r \in { x \in Range(parent) \cup { c.result : c \in Range(child) } :
                        x.ok } }

\* config.is_match(app).  is_match reads nothing that a call writes, so a
\* behaviour records one call.
IsMatch ==
    \E self \in Configs, app \in Apps :
        /\ call.op = "none"
        /\ call' = [ op |-> "is_match", self |-> self, app |-> app,
                     ret |-> is_match(self, app) ]
        /\ UNCHANGED <<menu_vars, target_os, files, config_path, child_doc, parent_doc, parent, child>>

Next == LoadParent \/ LoadAlone \/ LoadChild \/ NewDefault \/ IsMatch

Spec == Init /\ [][Next]_vars

----------------------------------------------------------------------------
RegexFilters == { "filter_title", "filter_class", "filter_exec" }

\* The runtime property a regex filter is matched against.
PropertyOf(app, f) ==
    CASE f = "filter_title" -> app.title
      [] f = "filter_class" -> app.class
      [] f = "filter_exec" -> app.exec

NoFilterDeclared(record) ==
    /\ is_none(record.filter_os)
    /\ is_none(record.filter_title)
    /\ is_none(record.filter_exec)
    /\ is_none(record.filter_class)

\* A declared filter of the record holds for the application.
FilterHolds(record, f, app) ==
    IF f = "filter_os"
    THEN os_matches(unwrap(record.filter_os))
    ELSE /\ is_some(PropertyOf(app, f))
         /\ regex_is_match(regex_new(unwrap(record[f])).val,
                           unwrap(PropertyOf(app, f)))

\* C2: is_match of a configuration whose record declares none of filter_os,
\* filter_title, filter_exec and filter_class is false for every application,
\* whether its title, class and exec are None or present.
C2_NoFilterNoMatch ==
    call.op = "is_match" /\ NoFilterDeclared(call.self.parsed)
        => call.ret = FALSE

\* A loaded configuration without filters, asked about an application with
\* all three properties.
C2_Witness ==
    /\ call.op = "is_match"
    /\ NoFilterDeclared(call.self.parsed)
    /\ call.self.match_paths # {}
    /\ is_some(call.app.title) /\ is_some(call.app.class) /\ is_some(call.app.exec)
    /\ call.ret = FALSE

\* C3: is_match of a configuration that declares at least one filter is true
\* exactly when every declared filter holds (filter_os by os_matches, a regex
\* filter by its regex matching the runtime property); the runtime property
\* of a filter that is not declared, present or None, does not change the
\* result.
C3_AllDeclaredFiltersHold ==
    call.op = "is_match" /\ ~ NoFilterDeclared(call.self.parsed) =>
        /\ call.ret =
              \A f \in RegexFilters \cup { "filter_os" } :
                  is_some(call.self.parsed[f])
                      => FilterHolds(call.self.parsed, f, call.app)
        /\ \A other \in Apps :
              (\A f \in RegexFilters :
                  is_some(call.self.parsed[f])
                      => PropertyOf(other, f) = PropertyOf(call.app, f))
                  => is_match(call.self, other) = call.ret

\* filter_exec and filter_title declared and both matching, filter_class not
\* declared.
C3_Witness ==
    /\ call.op = "is_match"
    /\ call.self.parsed.filter_title = Some(TXT_GOOGLE)
    /\ call.self.parsed.filter_exec = Some(TXT_CHROME_EXE)
    /\ is_none(call.self.parsed.filter_class)
    /\ is_none(call.self.parsed.filter_os)
    /\ call.app.title = Some(TXT_GOOGLE_MAIL)
    /\ call.app.exec = Some(TXT_CHROME_EXE)
    /\ call.app.class = None
    /\ call.ret = TRUE

\* C4: when the configuration declares the filter of title, class or exec and
\* the application's property of that name is None, is_match is false,
\* whatever the other filters and properties are.
C4_MissingPropertyFails ==
    call.op = "is_match" =>
        \A f \in RegexFilters :
            is_some(call.self.parsed[f]) /\ is_none(PropertyOf(call.app, f))
                => call.ret = FALSE

\* Only filter_class is declared and the application has no class; its title
\* and exec are present.
C4_Witness ==
    /\ call.op = "is_match"
    /\ call.self.parsed.filter_class = Some(TXT_CHROME)
    /\ is_none(call.self.parsed.filter_title)
    /\ is_none(call.self.parsed.filter_exec)
    /\ is_none(call.self.parsed.filter_os)
    /\ is_none(call.app.class)
    /\ is_some(call.app.title) /\ is_some(call.app.exec)
    /\ call.ret = FALSE

----------------------------------------------------------------------------
\* The calls of load made so far: the path, the record read, the parent it
\* was given and its result.
Loads ==
    { [ path |-> ParentPath, read |-> parent_doc, parent |-> None,
        result |-> r ] : r \in Range(parent) }
    \cup
    { [ path |-> config_path, read |-> child_doc, parent |-> c.parent,
        result |-> c.result ] : c \in { x \in Range(child) : x.by = "load" } }

\* The record a load resolves: the record read, merged with the parent's.
MergedOf(l) ==
    IF is_some(l.parent)
    THEN [ f \in Fields |->
             IF is_some(l.read.val[f]) THEN l.read.val[f]
             ELSE unwrap(l.parent).parsed[f] ]
    ELSE l.read.val

\* The files the include patterns of a record resolve to, nothing excluded.
IncludedFiles(record, base_dir) ==
    { f \in files :
        \E p \in AllPatterns :
            /\ \/ StandardOn(record) /\ p = STD_INCLUDE
               \/ Listed(record, "includes", p)
               \/ Listed(record, "extra_includes", p)
            /\ f \in glob(base_dir, p) }

\* The files the exclude patterns of a record resolve to.
ExcludedFiles(record, base_dir) ==
    { f \in files :
        \E p \in AllPatterns :
            /\ \/ StandardOn(record) /\ p = STD_EXCLUDE
               \/ Listed(record, "excludes", p)
               \/ Listed(record, "extra_excludes", p)
            /\ f \in glob(base_dir, p) }

\* C8: load(path, Some(parent)) computes match_paths from the child merged
\* with the parent.  When the child declares use_standard_includes: false and
\* an empty excludes list, and neither declares extra_excludes, no exclude
\* pattern applies and match_paths is every file its include patterns
\* resolve to; the parent's match_paths stay filtered by the parent's
\* excludes and the standard exclude.
C8_MergeBeforeAggregation ==
    \A l \in Loads :
        is_some(l.parent) /\ l.result.ok =>
            LET base_dir == unwrap(path_parent(l.path))
                merged == MergedOf(l)
            IN  /\ l.result.val.match_paths =
                      IncludedFiles(merged, base_dir)
                          \ ExcludedFiles(merged, base_dir)
                /\ ( /\ l.read.val.use_standard_includes = Some(FALSE)
                     /\ l.read.val.excludes = Some(<<>>)
                     /\ is_none(l.read.val.extra_excludes)
                     /\ is_none(unwrap(l.parent).parsed.extra_excludes) )
                      => l.result.val.match_paths = IncludedFiles(merged, base_dir)
                /\ unwrap(l.parent).match_paths =
                      IncludedFiles(unwrap(l.parent).parsed, base_dir)
                          \ ExcludedFiles(unwrap(l.parent).parsed, base_dir)
                /\ unwrap(parent).val = unwrap(l.parent)

\* The child and parent of match_paths_generated_correctly_with_child_config.
C8_Witness ==
    \E l \in Loads :
        /\ is_some(l.parent) /\ l.result.ok
        /\ unwrap(l.parent).parsed.excludes = Some(<<PAT_ANOTHER>>)
        /\ l.read.val.use_standard_includes = Some(FALSE)
        /\ l.read.val.excludes = Some(<<>>)
        /\ l.read.val.includes = Some(<<PAT_SUB>>)
        /\ l.result.val.match_paths =
              { << <<"match">>, <<"sub">>, <<"another", ".yml">> >>,
                << <<"match">>, <<"sub">>, <<"_", "sub", ".yml">> >> }
        /\ unwrap(l.parent).match_paths = { << <<"match">>, <<"base", ".yml">> >> }

\* The filters of the merged record of a load all compile.
FiltersCompile(l) ==
    \A f \in RegexFilters :
        is_some(MergedOf(l)[f]) => regex_new(unwrap(MergedOf(l)[f])).ok

\* C9: load returns a ResolvedConfig only if the record deserialized, the
\* path has a parent directory and every regex filter of the merged record
\* compiled, and that configuration holds the merged record with each present
\* filter compiled.  Otherwise it returns an error: the reader's,
\* ParentResolveFailed for the missing directory, or the regex compiler's.
C9_AllOrNothing ==
    \A l \in Loads :
        /\ l.result.ok <=>
              /\ l.read.ok
              /\ is_some(path_parent(l.path))
              /\ FiltersCompile(l)
        /\ l.result.ok =>
              /\ l.result.val.parsed = MergedOf(l)
              /\ \A f \in RegexFilters :
                    is_some(MergedOf(l)[f]) =>
                        l.result.val[f] = Some(regex_new(unwrap(MergedOf(l)[f])).val)
        /\ ~ l.read.ok => l.result = l.read
        /\ l.read.ok /\ is_none(path_parent(l.path))
              => l.result = Err("ParentResolveFailed")
        /\ l.read.ok /\ is_some(path_parent(l.path)) /\ ~ FiltersCompile(l)
              => l.result = Err("regex::Error")

\* A child whose filter_title compiles and whose filter_exec does not.
C9_Witness ==
    \E l \in Loads :
        /\ is_some(l.parent)
        /\ l.read.ok
        /\ l.read.val.filter_title = Some(TXT_GOOGLE)
        /\ l.read.val.filter_exec = Some(TXT_INVALID)
        /\ l.result = Err("regex::Error")

\* The configurations held: those loaded, and the one made by Default.
Held ==
    { [ config |-> r.val, read |-> parent_doc, parent |-> None ] :
        r \in { x \in Range(parent) : x.ok } }
    \cup
    { [ config |-> c.result.val,
        read |-> IF c.by = "load" THEN child_doc ELSE Ok(ParsedConfigDefault),
        parent |-> c.parent ] :
        c \in { x \in Range(child) : x.result.ok } }

\* C10: in every ResolvedConfig made by load or by Default the compiled
\* title, class and exec filter is None exactly when the field of the stored
\* record is absent, and a filter that only the parent declares is the
\* parent's compiled filter.
C10_CompiledIffDeclared ==
    \A h \in Held :
        \A f \in RegexFilters :
            /\ is_none(h.config[f]) <=> is_none(h.config.parsed[f])
            /\ is_some(h.parent) /\ is_none(h.read.val[f])
                  => h.config[f] = unwrap(h.parent)[f]

\* A child without filter_title under a parent that declares it.
C10_Witness ==
    \E h \in Held :
        /\ is_some(h.parent)
        /\ is_none(h.read.val.filter_title)
        /\ h.config.filter_title = Some([program |-> TXT_GOOGLE])
        /\ h.config.parsed.filter_title = Some(TXT_GOOGLE)

----------------------------------------------------------------------------
\* espanso-engine: the context menu executor (dispatch/executor/context_menu.rs).

\* Longest item list of a ShowContextMenu event.
MaxItems == 2

\* Events dispatched in one behaviour.
MaxDispatch == 2

\* The item execute appends.
OpenMatchFolderItem ==
    [variant |-> "Simple", id |-> 1, label |-> "Open match folder"]

\* Items an event may carry, one of them equal to the appended item.
MenuItems ==
    { [variant |-> "Simple", id |-> 0, label |-> "Reload config"],
      [variant |-> "Separator"],
      OpenMatchFolderItem }

Events ==
    { [etype |-> [kind |-> k]] : k \in { "NOOP", "ExitRequested" } }
    \cup
    { [etype |-> [kind |-> "ShowContextMenu", items |-> l]] :
        l \in SeqsUpTo(MenuItems, MaxItems) }

HandlerResults == { Ok("()"), Err("handler failed") }

\* execute answering with the handler's success.
execute_false_on_error(e, result) ==
    IF e.etype.kind = "ShowContextMenu"
    THEN [ ret |-> result.ok,
           shown |-> << Append(e.etype.items, OpenMatchFolderItem) >>,
           logged |-> IF ~ result.ok
                      THEN << [ message |-> "context menu handler reported an error",
                                error |-> result.err ] >>
                      ELSE <<>>,
           event |-> e ]
    ELSE [ ret |-> FALSE, shown |-> <<>>, logged |-> <<>>, event |-> e ]

\* ContextMenuExecutor::execute(&event) with a handler that returns result:
\* the value returned, the item lists the handler was called with, the
\* errors logged, and the event as it is left.
execute(e, result) ==
    IF e.etype.kind = "ShowContextMenu"
    THEN LET updated_items == Append(e.etype.items, OpenMatchFolderItem)
         IN  [ ret |-> TRUE,
               shown |-> << updated_items >>,
               logged |-> IF ~ result.ok
                          THEN << [ message |-> "context menu handler reported an error",
                                    error |-> result.err ] >>
                          ELSE <<>>,
               event |-> e ]
    ELSE [ ret |-> FALSE, shown |-> <<>>, logged |-> <<>>, event |-> e ]

InitMenu ==
    /\ target_os = "linux"
    /\ files = TestFiles
    /\ config_path = ConfigPath
    /\ child_doc = Ok(ParsedConfigDefault)
    /\ parent_doc = Ok(ParsedConfigDefault)
    /\ parent = None
    /\ child = None
    /\ call = [op |-> "none", nth |-> 0]
    /\ MenuIdle

\* The dispatcher takes the next event; the handler will answer with r.
Dispatch ==
    \E e \in Events, r \in HandlerResults :
        /\ call.op # "dispatch"
        /\ call.nth < MaxDispatch
        /\ event' = e
        /\ handler_result' = r
        /\ call' = [op |-> "dispatch", nth |-> call.nth + 1]
        /\ UNCHANGED <<target_os, files, config_path, child_doc, parent_doc,
                       parent, child, handler_calls, error_log>>

\* executor.execute(&event)
Execute ==
    /\ call.op = "dispatch"
    /\ LET out == execute(event, handler_result)
       IN  /\ call' = [ op |-> "execute", nth |-> call.nth, event |-> event,
                        result |-> handler_result,
                        calls_before |-> handler_calls,
                        log_before |-> error_log, ret |-> out.ret ]
           /\ handler_calls' = handler_calls \o out.shown
           /\ error_log' = error_log \o out.logged
           /\ event' = out.event
    /\ UNCHANGED <<target_os, files, config_path, child_doc, parent_doc,
                   parent, child, handler_result>>

NextMenu == Dispatch \/ Execute

SpecMenu == InitMenu /\ [][NextMenu]_vars

====
